---- MODULE Spec2Model ----
(***************************************************************************)
(* Model of src/app.py: a Streamlit script that extracts text from a typed *)
(* text, an image, a PDF or a spreadsheet, composes a prompt from that     *)
(* text, the session's conversation history and a question, sends it to a  *)
(* chat-completion API and appends the exchange to the history.            *)
(*                                                                         *)
(* Streamlit runs main() top to bottom once when the session starts and    *)
(* once after every widget interaction.  One action of this model is one   *)
(* such script run.  Only st.session_state and the widget values survive   *)
(* from one run to the next; every other variable holds what the latest    *)
(* run computed.  A Python str is a sequence of one-character strings.     *)
(***************************************************************************)
EXTENDS Integers, Sequences, FiniteSets, TLC

\* ------------------------------------------------------------------ bounds

\* Submissions are accepted while the history is shorter than this.
MaxHistory == 2
\* The longest PDF, in pages.
MaxPages == 2

\* ------------------------------------------------------- string primitives

UpperLetters ==
  <<"A","B","C","D","E","F","G","H","I","J","K","L","M",
    "N","O","P","Q","R","S","T","U","V","W","X","Y","Z">>

LowerLetters ==
  <<"a","b","c","d","e","f","g","h","i","j","k","l","m",
    "n","o","p","q","r","s","t","u","v","w","x","y","z">>

Digits == <<"0","1","2","3","4","5","6","7","8","9">>

UpperSet == { UpperLetters[i] : i \in 1..Len(UpperLetters) }

LowerOf ==
  [c \in UpperSet |-> LowerLetters[CHOOSE i \in 1..Len(UpperLetters) : UpperLetters[i] = c]]

\* str.lower() on one character.
LowerChar(c) == IF c \in UpperSet THEN LowerOf[c] ELSE c

\* str.lower()
Lower(s) == [i \in 1..Len(s) |-> LowerChar(s[i])]

\* The characters str.split() and str.strip() treat as whitespace.
IsSpace(c) == c \in {" ", "\n", "\t", "\r"}

\* Where the words of s start: a non-whitespace character that opens s or
\* follows whitespace.
WordStarts(s) ==
  { i \in 1..Len(s) : ~IsSpace(s[i]) /\ (i = 1 \/ IsSpace(s[i - 1])) }

\* The word of s that starts at i: up to the next whitespace or the end.
WordAt(s, i) ==
  SubSeq(s, i, CHOOSE j \in i..Len(s) :
                 /\ \A k \in i..j : ~IsSpace(s[k])
                 /\ (j = Len(s) \/ IsSpace(s[j + 1])))

\* The words of s that start at the positions starts, in order.
WordsAt(s, starts) ==
  [k \in 1..Cardinality(starts) |->
     WordAt(s, CHOOSE i \in starts : Cardinality({ j \in starts : j <= i }) = k)]

\* str.split(): the maximal runs of non-whitespace characters, in order.
Split(s) == WordsAt(s, WordStarts(s))

\* needle in hay
Contains(hay, needle) ==
  \E i \in 0..(Len(hay) - Len(needle)) : SubSeq(hay, i + 1, i + Len(needle)) = needle

\* str.strip()
Strip(s) ==
  IF \A i \in 1..Len(s) : IsSpace(s[i])
  THEN <<>>
  ELSE LET first == CHOOSE i \in 1..Len(s) :
                      ~IsSpace(s[i]) /\ \A j \in 1..(i - 1) : IsSpace(s[j])
           last  == CHOOSE i \in 1..Len(s) :
                      ~IsSpace(s[i]) /\ \A j \in (i + 1)..Len(s) : IsSpace(s[j])
       IN SubSeq(s, first, last)

\* sep.join(parts)
RECURSIVE Join(_, _)
Join(parts, sep) ==
  IF parts = <<>> THEN <<>>
  ELSE IF Len(parts) = 1 THEN parts[1]
  ELSE parts[1] \o sep \o Join(Tail(parts), sep)

\* str(n) for n >= 0, as an f-string renders an int.
RECURSIVE IntToStr(_)
IntToStr(n) ==
  IF n < 10 THEN <<Digits[n + 1]>>
  ELSE IntToStr(n \div 10) \o <<Digits[(n % 10) + 1]>>

\* ------------------------------------------------------------ the literals

ContentHeader ==
  <<"H","e","r","e"," ","i","s"," ","t","h","e"," ","c","o","n","t","e","n","t",":","\n","\n">>

HistoryHeader ==
  <<"\n","\n","P","r","e","v","i","o","u","s"," ","c","o","n","v","e","r","s","a","t","i","o","n",":","\n">>

QuestionHeader == <<"\n","\n","Q","u","e","s","t","i","o","n",":"," ">>

AnswerTrailer == <<"\n","A","n","s","w","e","r",":">>

RejectMsg ==
  <<"P","l","e","a","s","e"," ","a","s","k"," ","a"," ","q","u","e","s","t","i","o","n"," ",
    "r","e","l","a","t","e","d"," ","t","o"," ","t","h","e"," ","p","r","o","v","i","d","e","d"," ",
    "c","o","n","t","e","n","t",".">>

NL == <<"\n">>

\* The st.error notices, by the message each starts with.
ErrVision == "Error initializing Google Vision API client"
ErrImage  == "Error extracting text from image"
ErrPdf    == "Error extracting text from PDF"
ErrSheet  == "Error processing Excel/CSV file"
ErrGpt    == "Error communicating with GPT"
ErrProcessImage == "Error processing image"
ErrProcessPdf   == "Error processing PDF"

\* ------------------------------------------------------ the inputs modelled

InputTypes == {"Text", "Image", "PDF", "Excel/CSV"}

\* What the user may type as context.  The last one is whitespace only: a
\* non-empty str, so truthy, with no keyword.
Texts == { <<"a">>, <<"A"," ","b">>, <<" ">> }

\* What the user may type as a question.
Questions == { <<"a">>, <<"B","?">> }

\* The text a PDF page shows.
PageTexts == { <<"a">>, <<"b">> }

\* An uploaded image, by the text it shows; the first one shows none.
ImageFiles == [kind : {"image"}, shows : {<<>>} \cup PageTexts]

\* An uploaded PDF: one pdf2image cannot rasterize, or its pages.
PageSeqs == UNION { [1..n -> PageTexts] : n \in 1..MaxPages }
PdfFiles ==
  { [kind |-> "pdf", readable |-> FALSE, pages |-> <<>>] }
  \cup { [kind |-> "pdf", readable |-> TRUE, pages |-> p] : p \in PageSeqs }

\* An uploaded spreadsheet: its extension, whether pandas can parse it, and
\* the text df.to_string(index=False) renders for it.
SheetFiles == [kind : {"sheet"}, ext : {"xlsx", "csv"}, malformed : BOOLEAN, table : {<<"a">>}]

\* An empty widget: no file, no text.
NoFile == [kind |-> "none"]

\* Every file the uploaders are given.
AllFiles == ImageFiles \cup PdfFiles \cup SheetFiles

\* The files of the sessions with questions: an image, an unreadable and a
\* two-page PDF, a malformed and a well-formed spreadsheet.
SessionFiles ==
  { [kind |-> "image", shows |-> <<"a">>],
    [kind |-> "pdf", readable |-> FALSE, pages |-> <<>>],
    [kind |-> "pdf", readable |-> TRUE, pages |-> << <<"a">>, <<"b">> >>],
    [kind |-> "sheet", ext |-> "xlsx", malformed |-> TRUE, table |-> <<"a">>],
    [kind |-> "sheet", ext |-> "csv", malformed |-> FALSE, table |-> <<"a">>] }

\* What one call of the OCR service does: it answers with the annotations
\* of the text, answers with an error message, or the call raises.
OcrOutcomes == {"ok", "error", "raise"}

\* What one call of the chat-completion API does.
ApiOutcomes ==
  { [raised |-> TRUE,  content |-> <<>>],
    [raised |-> FALSE, content |-> <<" ","b","\n">>] }

\* The answers ask_gpt4 can return: none after a failure, the rejection, a
\* stripped completion.
Answers == { <<>>, RejectMsg } \cup { Strip(o.content) : o \in { x \in ApiOutcomes : ~x.raised } }

\* What the services do during one script run that makes n OCR calls and,
\* when the button was clicked, may make a chat-completion request.
Envs(n, clicked) ==
  [vision : BOOLEAN, ocr : [1..n -> OcrOutcomes],
   api : IF clicked THEN ApiOutcomes ELSE {[raised |-> TRUE, content |-> <<>>]}]

\* ----------------------------------------------------------------- state

VARIABLES
  session_state,   \* st.session_state: a function from its keys to their values
  input_type,      \* the sidebar selectbox
  widget,          \* the text area or the file uploader of the selected type
  question,        \* the question text area; empty when it was not rendered
  button,          \* st.button("Get Answer") in the latest run
  extracted_text,  \* main's extracted_text at the end of the latest run
  prompt,          \* the prompt the latest run composed; empty when it composed none
  answer,          \* what ask_gpt4 returned in the latest run
  notices,         \* the st.error notices of the latest run
  ocr_log,         \* the OCR calls of the latest run, in call order
  api_log,         \* what the chat-completion API did at each request of the latest run
  escaped,         \* an exception left main in the latest run
  carried          \* how many history records predate the current input

vars ==
  <<session_state, input_type, widget, question, button, extracted_text, prompt,
    answer, notices, ocr_log, api_log, escaped, carried>>

HistoryKey == "conversation_history"

EmptySession == [k \in {} |-> <<>>]

EmptyText == [kind |-> "text", text |-> <<>>]

\* st.session_state.conversation_history, empty before the first run.
History == IF HistoryKey \in DOMAIN session_state THEN session_state[HistoryKey] ELSE <<>>

\* ------------------------------------------------------------ the functions

\* init_vision_client
init_vision_client(ok) ==
  [client |-> ok, notices |-> IF ok THEN {} ELSE {ErrVision}]

\* client.text_detection on an image showing `shows`: the response, or raised.
\* text_annotations holds the whole text first, then its words; it is empty
\* for an image that shows no text.
text_detection(shows, outcome) ==
  [raised |-> outcome = "raise",
   error_message |-> IF outcome = "error" THEN <<"e","r","r">> ELSE <<>>,
   text_annotations |-> IF outcome = "ok" /\ shows # <<>>
                        THEN <<shows>> \o Split(shows) ELSE <<>>]

\* ImageThrown without line 54: an error message in the response is ignored.
ImageThrownOnlyOnRaise(response) == response.raised

\* extract_text_from_image, lines 54-55: whether the try block raises.
ImageThrown(response) == response.raised \/ response.error_message # <<>>

\* extract_text_from_image, lines 56-60: what it returns.
ImageText(response) ==
  IF ImageThrown(response) THEN <<>>
  ELSE IF response.text_annotations # <<>> THEN response.text_annotations[1] ELSE <<>>

\* extract_text_from_image, given the response of its OCR call.  calls is
\* the OCR call it made: the page sent, what the service did, the text the
\* extractor returned for it.
ImageResult(response, outcome, page) ==
  [text |-> ImageText(response),
   notices |-> IF ImageThrown(response) THEN {ErrImage} ELSE {},
   raised |-> FALSE,
   calls |-> <<[page |-> page, outcome |-> outcome, text |-> ImageText(response)]>>]

\* extract_text_from_image
extract_text_from_image(shows, outcome, page) ==
  ImageResult(text_detection(shows, outcome), outcome, page)

\* PageBlock numbering the pages from 0: {i} for {i + 1}.
PageBlockZeroBased(i, page_text) ==
  <<"-","-","-"," ","P","a","g","e"," ">> \o IntToStr(i) \o <<" ","-","-","-","\n">>
    \o page_text \o <<"\n","\n">>

\* f"--- Page {i + 1} ---\n{page_text}\n\n"
PageBlock(i, page_text) ==
  <<"-","-","-"," ","P","a","g","e"," ">> \o IntToStr(i + 1) \o <<" ","-","-","-","\n">>
    \o page_text \o <<"\n","\n">>

\* PdfAdd leaving the loop with no text at the first page whose OCR failed.
PdfAddAbortOnFailure(acc, i, r) ==
  IF r.raised \/ r.notices # {}
  THEN [text |-> <<>>, notices |-> acc.notices \cup r.notices \cup {ErrPdf},
        raised |-> FALSE, calls |-> acc.calls \o r.calls, done |-> TRUE]
  ELSE [text |-> acc.text \o PageBlock(i, r.text),
        notices |-> acc.notices \cup r.notices,
        raised |-> FALSE, calls |-> acc.calls \o r.calls, done |-> FALSE]

\* extract_text_from_pdf, line 72, after the OCR of page i + 1 returned r: an
\* exception of the page leaves the loop for the except clause.
PdfAdd(acc, i, r) ==
  IF r.raised
  THEN [text |-> <<>>, notices |-> acc.notices \cup r.notices \cup {ErrPdf},
        raised |-> FALSE, calls |-> acc.calls \o r.calls, done |-> TRUE]
  ELSE [text |-> acc.text \o PageBlock(i, r.text),
        notices |-> acc.notices \cup r.notices,
        raised |-> FALSE, calls |-> acc.calls \o r.calls, done |-> FALSE]

\* The for loop of extract_text_from_pdf, from index i (0-based) on.
RECURSIVE PdfLoop(_, _, _, _)
PdfLoop(images, outcomes, i, acc) ==
  IF i >= Len(images) \/ acc.done THEN acc
  ELSE PdfLoop(images, outcomes, i + 1,
               PdfAdd(acc, i, extract_text_from_image(images[i + 1], outcomes[i + 1], i + 1)))

\* What an extractor returns: the text, the notices it showed, whether an
\* exception left it, the OCR calls it made.
Returned(r) == [text |-> r.text, notices |-> r.notices, raised |-> r.raised, calls |-> r.calls]

\* extract_text_from_pdf
extract_text_from_pdf(pdf, outcomes) ==
  IF ~pdf.readable
  THEN [text |-> <<>>, notices |-> {ErrPdf}, raised |-> FALSE, calls |-> <<>>]
  ELSE Returned(PdfLoop(pdf.pages, outcomes, 0,
                        [text |-> <<>>, notices |-> {}, raised |-> FALSE,
                         calls |-> <<>>, done |-> FALSE]))

\* process_excel
process_excel(file) ==
  IF file.malformed
  THEN [text |-> <<>>, notices |-> {ErrSheet}, raised |-> FALSE, calls |-> <<>>,
        reader |-> IF file.ext = "xlsx" THEN "read_excel" ELSE "read_csv"]
  ELSE [text |-> file.table, notices |-> {}, raised |-> FALSE, calls |-> <<>>,
        reader |-> IF file.ext = "xlsx" THEN "read_excel" ELSE "read_csv"]

\* ask_gpt4, line 92: any(keyword in prompt.lower() for keyword in ...split())
AnyKeywordIn(lowered, keywords) ==
  \E k \in 1..Len(keywords) : Contains(lowered, keywords[k])

\* ask_gpt4 sending the request a second time after a failure.
ask_gpt4_retry(p, text, api) ==
  IF ~AnyKeywordIn(Lower(p), Split(Lower(text)))
  THEN [answer |-> RejectMsg, notices |-> {}, calls |-> <<>>]
  ELSE IF api.raised
       THEN [answer |-> <<>>, notices |-> {ErrGpt}, calls |-> <<api, api>>]
       ELSE [answer |-> Strip(api.content), notices |-> {}, calls |-> <<api>>]

\* ask_gpt4.  calls is what the API did at each request it made.
ask_gpt4(p, text, api) ==
  IF ~AnyKeywordIn(Lower(p), Split(Lower(text)))
  THEN [answer |-> RejectMsg, notices |-> {}, calls |-> <<>>]
  ELSE IF api.raised
       THEN [answer |-> <<>>, notices |-> {ErrGpt}, calls |-> <<api>>]
       ELSE [answer |-> Strip(api.content), notices |-> {}, calls |-> <<api>>]

\* main, lines 175-176: the history section.
WithHistory(p, history) ==
  IF history # <<>> THEN p \o HistoryHeader \o Join(history, NL) ELSE p

\* ComposePrompt with the question put before the history section.
ComposePromptQuestionFirst(text, history, q) ==
  WithHistory(ContentHeader \o text \o QuestionHeader \o q \o AnswerTrailer, history)

\* main, lines 174-177: the prompt.
ComposePrompt(text, history, q) ==
  WithHistory(ContentHeader \o text, history) \o QuestionHeader \o q \o AnswerTrailer

\* main, line 181: f"Q: {question}\nA: {answer}"
FormatRecord(q, a) == <<"Q",":"," ">> \o q \o <<"\n","A",":"," ">> \o a

\* InitSessionState without the membership test: every run starts the history anew.
InitSessionStateAlways(ss) ==
  [k \in DOMAIN ss \cup {HistoryKey} |-> IF k = HistoryKey THEN <<>> ELSE ss[k]]

\* main, lines 117-118.
InitSessionState(ss) ==
  IF HistoryKey \notin DOMAIN ss
  THEN [k \in DOMAIN ss \cup {HistoryKey} |-> IF k = HistoryKey THEN <<>> ELSE ss[k]]
  ELSE ss

\* AppendHistory inserting the record at the front.
PrependHistory(ss, rec) == [ss EXCEPT ![HistoryKey] = <<rec>> \o @]

\* main, line 181: the append.
AppendHistory(ss, rec) == [ss EXCEPT ![HistoryKey] = Append(@, rec)]

\* The OCR calls a run on this input makes when the vision client is there.
NeededCalls(it, w) ==
  IF w.kind = "image" /\ it = "Image" THEN 1
  ELSE IF w.kind = "pdf" /\ it = "PDF" THEN Len(w.pages)
  ELSE 0

Nothing == [text |-> <<>>, notices |-> {}, raised |-> FALSE, calls |-> <<>>]

\* main, lines 132-141 and 147-158: the try around an extractor; its except
\* clause shows a notice and leaves extracted_text empty.
Tried(r, notice) ==
  IF r.raised
  THEN [text |-> <<>>, notices |-> r.notices \cup {notice}, raised |-> FALSE, calls |-> r.calls]
  ELSE r

\* main, lines 120-166: the branch of the selected input type.
Extract(it, w, vision_client, env) ==
  IF it = "Text"
  THEN [text |-> w.text, notices |-> {}, raised |-> FALSE, calls |-> <<>>]
  ELSE IF it = "Image"
  THEN IF w.kind = "image" /\ vision_client
       THEN Tried(extract_text_from_image(w.shows, env.ocr[1], 1), ErrProcessImage)
       ELSE Nothing
  ELSE IF it = "PDF"
  THEN IF w.kind = "pdf" /\ vision_client
       THEN Tried(extract_text_from_pdf(w, env.ocr), ErrProcessPdf)
       ELSE Nothing
  ELSE IF w.kind = "sheet"
       THEN Returned(process_excel(w))
       ELSE Nothing

\* main, lines 168-172: whether this run asks.  An exception that left the
\* extraction ended the run.
Asks(ex, q, clicked) == ~ex.raised /\ ex.text # <<>> /\ clicked /\ q # <<>>

NoReply == [answer |-> <<>>, notices |-> {}, calls |-> <<>>]

\* main, lines 174-184, given the prompt p and what ask_gpt4 returned for it.
Finish(ss1, q, vc, ex, asks, p, reply) ==
  [session_state |-> IF asks THEN AppendHistory(ss1, FormatRecord(q, reply.answer)) ELSE ss1,
   extracted_text |-> IF ex.raised THEN <<>> ELSE ex.text,
   question |-> IF ~ex.raised /\ ex.text # <<>> THEN q ELSE <<>>,
   prompt |-> p,
   answer |-> reply.answer,
   notices |-> vc.notices \cup ex.notices \cup reply.notices,
   ocr_log |-> ex.calls,
   api_log |-> reply.calls,
   escaped |-> ex.raised]

\* main, lines 174-179, given the prompt p.
Answer(ss1, q, vc, ex, api, asks, p) ==
  Finish(ss1, q, vc, ex, asks, p, IF asks THEN ask_gpt4(p, ex.text, api) ELSE NoReply)

\* main, lines 174-177, given whether the run asks.
Ask(ss1, q, vc, ex, api, asks) ==
  Answer(ss1, q, vc, ex, api, asks,
         IF asks THEN ComposePrompt(ex.text, ss1[HistoryKey], q) ELSE <<>>)

\* main, lines 168-172, given what the extraction returned.
AfterExtract(ss1, q, clicked, vc, ex, api) ==
  Ask(ss1, q, vc, ex, api, Asks(ex, q, clicked))

\* main, lines 120-166, given the vision client and the session state.
AfterInit(ss1, it, w, q, clicked, env, vc) ==
  AfterExtract(ss1, q, clicked, vc, Extract(it, w, vc.client, env), env.api)

\* One run of main: what it leaves behind.
Main(ss, it, w, q, clicked, env) ==
  AfterInit(InitSessionState(ss), it, w, q, clicked, env, init_vision_client(env.vision))

\* -------------------------------------------------------------- the actions

\* The script run that follows a user action leaving the widgets at it, w, q.
Rerun(it, w, q, clicked, replaced) ==
  \E env \in Envs(NeededCalls(it, w), clicked) :
    \E r \in {Main(session_state, it, w, q, clicked, env)} :
       /\ session_state' = r.session_state
       /\ input_type' = it
       /\ widget' = w
       /\ question' = r.question
       /\ button' = clicked
       /\ extracted_text' = r.extracted_text
       /\ prompt' = r.prompt
       /\ answer' = r.answer
       /\ notices' = r.notices
       /\ ocr_log' = r.ocr_log
       /\ api_log' = r.api_log
       /\ escaped' = r.escaped
       /\ carried' = IF replaced THEN Len(History) ELSE carried

Loaded == HistoryKey \in DOMAIN session_state

Init ==
  /\ session_state = EmptySession
  /\ input_type = "Text"
  /\ widget = EmptyText
  /\ question = <<>>
  /\ button = FALSE
  /\ extracted_text = <<>>
  /\ prompt = <<>>
  /\ answer = <<>>
  /\ notices = {}
  /\ ocr_log = <<>>
  /\ api_log = <<>>
  /\ escaped = FALSE
  /\ carried = 0

\* The first run of the script, when the session opens.
Load ==
  /\ ~Loaded
  /\ Rerun(input_type, widget, question, FALSE, FALSE)

\* The user picks another input type: the other type's widget appears, empty.
SelectInputType(t) ==
  /\ Loaded
  /\ t # input_type
  /\ Rerun(t, IF t = "Text" THEN EmptyText ELSE NoFile, question, FALSE, TRUE)

\* The user changes the context text.
EnterText(s) ==
  /\ Loaded
  /\ input_type = "Text"
  /\ s # widget.text
  /\ Rerun(input_type, [kind |-> "text", text |-> s], question, FALSE, TRUE)

\* The files the uploader of an input type takes.
UploaderKind(it) ==
  IF it = "Image" THEN "image" ELSE IF it = "PDF" THEN "pdf" ELSE "sheet"

\* The user uploads, replaces or removes the file of the selected type.
UploadFile(f) ==
  /\ Loaded
  /\ input_type # "Text"
  /\ f.kind \in {"none", UploaderKind(input_type)}
  /\ f # widget
  /\ Rerun(input_type, f, question, FALSE, TRUE)

\* The user changes the question; its text area is there when the latest run
\* had an extracted text.
TypeQuestion(q) ==
  /\ Loaded
  /\ extracted_text # <<>>
  /\ q # question
  /\ Rerun(input_type, widget, q, FALSE, FALSE)

\* The user clicks "Get Answer"; the button is there when the latest run
\* had an extracted text.
Submit ==
  /\ Loaded
  /\ extracted_text # <<>>
  /\ Rerun(input_type, widget, question, TRUE, FALSE)

ClickGetAnswer ==
  /\ Len(History) < MaxHistory
  /\ Submit

\* A session: any input type, any context text, the session's files, questions.
Next ==
  \/ Load
  \/ \E t \in InputTypes : SelectInputType(t)
  \/ \E s \in Texts \cup {<<>>} : EnterText(s)
  \/ \E f \in SessionFiles \cup {NoFile} : UploadFile(f)
  \/ \E q \in Questions \cup {<<>>} : TypeQuestion(q)
  \/ ClickGetAnswer

Spec == Init /\ [][Next]_vars

\* Extraction: a session in which every file is uploaded and no question is
\* submitted.
ExtractNext ==
  \/ Load
  \/ \E t \in InputTypes : SelectInputType(t)
  \/ \E f \in AllFiles \cup {NoFile} : UploadFile(f)
  \/ \E q \in Questions \cup {<<>>} : TypeQuestion(q)

ExtractSpec == Init /\ [][ExtractNext]_vars

\* Answering: the button is clicked in a session that has any history of up
\* to MaxHistory records, any context text and any question.
Records == { FormatRecord(q, a) : q \in Questions, a \in Answers }

Histories == UNION { [1..n -> Records] : n \in 0..MaxHistory }

PromptInit ==
  /\ session_state \in { [k \in {HistoryKey} |-> h] : h \in Histories }
  /\ input_type = "Text"
  /\ widget \in { [kind |-> "text", text |-> t] : t \in Texts }
  /\ question \in Questions
  /\ button = FALSE
  /\ extracted_text = widget.text
  /\ prompt = <<>>
  /\ answer = <<>>
  /\ notices = {}
  /\ ocr_log = <<>>
  /\ api_log = <<>>
  /\ escaped = FALSE
  /\ carried = Len(History)

PromptNext ==
  /\ Len(History) <= MaxHistory
  /\ Submit

PromptSpec == PromptInit /\ [][PromptNext]_vars

\* ---------------------------------------------------------------- claims

\* The latest run composed a prompt and called ask_gpt4.
Submitted == prompt # <<>>

\* The latest run got an answer from the chat-completion API.
Answered == api_log # <<>> /\ ~api_log[Len(api_log)].raised

\* The latest run ran extract_text_from_pdf on a PDF that rasterizes.
PdfExtracted ==
  /\ input_type = "PDF"
  /\ widget.kind = "pdf"
  /\ widget.readable
  /\ ErrVision \notin notices

\* The OCR service failed at call k of the latest run.
OcrFailed(k) == ocr_log[k].outcome \in {"error", "raise"}

\* "--- Page k ---\n" for k < 10.
PageHeader(k) ==
  <<"-","-","-"," ","P","a","g","e"," ", Digits[k + 1], " ","-","-","-","\n">>

\* C1: in every reachable state the length of the history equals the number
\* of exchanges completed with a successful answer: a run adds a record
\* exactly when it got an answer from the API, and no other run changes the
\* length.
C1_HistoryCountsSuccessfulAnswers ==
  [][Len(History') = Len(History) + (IF Answered' THEN 1 ELSE 0)]_vars

\* C2: the history is append-only: every step leaves it unchanged or adds at
\* its end the one record "Q: <question>\nA: <answer>" of the question just
\* submitted and the answer just returned, and a non-empty history never
\* becomes empty.
C2_HistoryAppendOnly ==
  [][/\ \/ History' = History
        \/ /\ Submitted'
           /\ History' = Append(History, <<"Q",":"," ">> \o question'
                                           \o <<"\n","A",":"," ">> \o answer')
     /\ History # <<>> => History' # <<>>]_vars

C2_Witness ==
  /\ Submitted
  /\ Len(History) = 2
  /\ History[1] # History[2]
  /\ History[2] = <<"Q",":"," ">> \o question \o <<"\n","A",":"," ">> \o answer

\* The length of the first n records of h, each followed by one separator.
RECURSIVE LenBefore(_, _)
LenBefore(h, n) == IF n = 0 THEN 0 ELSE LenBefore(h, n - 1) + Len(h[n]) + 1

\* body is the records of h in order, one newline between two of them.
RecordsInOrder(body, h) ==
  /\ Len(body) = LenBefore(h, Len(h)) - 1
  /\ \A i \in 1..Len(h) :
       /\ SubSeq(body, LenBefore(h, i - 1) + 1, LenBefore(h, i) - 1) = h[i]
       /\ i < Len(h) => body[LenBefore(h, i)] = "\n"

\* p is: the content header and d; then, iff h is not empty, the header
\* "Previous conversation:" and the records of h in order; then the trailer
\* "Question: <q>\nAnswer:", which ends p.
PromptLaidOut(p, d, h, q) ==
  LET head == <<"H","e","r","e"," ","i","s"," ","t","h","e"," ",
                "c","o","n","t","e","n","t",":","\n","\n">> \o d
      tail == <<"\n","\n","Q","u","e","s","t","i","o","n",":"," ">> \o q
                \o <<"\n","A","n","s","w","e","r",":">>
      section == <<"\n","\n","P","r","e","v","i","o","u","s"," ",
                   "c","o","n","v","e","r","s","a","t","i","o","n",":","\n">>
      mid == SubSeq(p, Len(head) + 1, Len(p) - Len(tail))
  IN /\ Len(p) >= Len(head) + Len(tail)
     /\ SubSeq(p, 1, Len(head)) = head
     /\ SubSeq(p, Len(p) - Len(tail) + 1, Len(p)) = tail
     /\ h = <<>> => mid = <<>> /\ ~Contains(p, SubSeq(section, 3, 23))
     /\ h # <<>> => /\ Len(mid) >= Len(section)
                    /\ SubSeq(mid, 1, Len(section)) = section
                    /\ RecordsInOrder(SubSeq(mid, Len(section) + 1, Len(mid)), h)

\* C3: for every document text, history and question the prompt is, in this
\* order: the content header and the document text; then, if and only if the
\* history is not empty, "Previous conversation:" and every record in
\* chronological order joined by newlines; then "Question: <question>\nAnswer:",
\* with which it ends.
C3_PromptLayout ==
  [][Submitted' => PromptLaidOut(prompt', extracted_text', History, question')]_vars

C3_Witness ==
  /\ Submitted
  /\ Len(History) = 3
  /\ History[1] # History[2]
  /\ Contains(prompt, History[1] \o <<"\n">> \o History[2] \o <<"\n","\n","Q","u","e","s","t">>)

\* The extraction of the latest run failed: the OCR service failed on an
\* uploaded image, an uploaded PDF did not rasterize, or an uploaded
\* spreadsheet was malformed.
ExtractionFailed ==
  \/ input_type = "Image" /\ ocr_log # <<>> /\ OcrFailed(1)
  \/ input_type = "PDF" /\ widget.kind = "pdf" /\ ~widget.readable /\ ErrVision \notin notices
  \/ input_type = "Excel/CSV" /\ widget.kind = "sheet" /\ widget.malformed

\* The notice of the extractor of the selected input type.
ExtractorNotice ==
  IF input_type = "Image" THEN ErrImage ELSE IF input_type = "PDF" THEN ErrPdf ELSE ErrSheet

\* C4: an extraction failure (OCR error or exception on an image, PDF
\* rasterization failure, malformed spreadsheet) makes the extractor return
\* the empty string with an error notice, no exception leaves the run, and
\* the history is as it was before the run.
C4_ExtractionFailureContained ==
  [][ExtractionFailed' =>
       /\ extracted_text' = <<>>
       /\ ExtractorNotice' \in notices'
       /\ ~escaped'
       /\ ~Submitted'
       /\ History' = History]_vars

C4_Witness ==
  /\ ExtractionFailed
  /\ input_type = "Image"
  /\ button
  /\ History # <<>>
  /\ extracted_text = <<>>

\* Where block k of the PDF text starts, less one: the blocks before it.
RECURSIVE BlocksBefore(_, _)
BlocksBefore(log, k) ==
  IF k = 0 THEN 0
  ELSE BlocksBefore(log, k - 1) + Len(PageHeader(k)) + Len(log[k].text) + 2

\* C5: for a PDF with N pages, the pages are sent to OCR in page order, one
\* call per page, and the output is N blocks, block k being the header
\* "--- Page k ---", the text of page k and a blank line; the output holds
\* exactly N page headers.
C5_PdfPagesInOrder ==
  PdfExtracted =>
    LET n == Len(widget.pages)
    IN /\ Len(ocr_log) = n
       /\ Len(extracted_text) = BlocksBefore(ocr_log, n)
       /\ \A k \in 1..n :
            /\ ocr_log[k].page = k
            /\ ocr_log[k].outcome = "ok" => ocr_log[k].text = widget.pages[k]
            /\ SubSeq(extracted_text, BlocksBefore(ocr_log, k - 1) + 1, BlocksBefore(ocr_log, k))
                 = PageHeader(k) \o ocr_log[k].text \o <<"\n","\n">>
       /\ Cardinality({ i \in 1..(Len(extracted_text) - 8) :
                          SubSeq(extracted_text, i, i + 8) = SubSeq(PageHeader(1), 1, 9) }) = n

C5_Witness ==
  /\ PdfExtracted
  /\ extracted_text =
       <<"-","-","-"," ","P","a","g","e"," ","1"," ","-","-","-","\n","a","\n","\n",
         "-","-","-"," ","P","a","g","e"," ","2"," ","-","-","-","\n","b","\n","\n">>

\* C6: when the answering request fails, ask_gpt4 returns the empty string
\* and shows an error, and no exception leaves the run; a run sends at most
\* one request, and only the run of a click on "Get Answer" sends one.
C6_AnswerFailureTerminal ==
  /\ Len(api_log) <= 1
  /\ api_log # <<>> => button /\ Submitted
  /\ (api_log # <<>> /\ api_log[1].raised) =>
       /\ answer = <<>>
       /\ ErrGpt \in notices
       /\ ~escaped

C6_Witness ==
  /\ button
  /\ api_log # <<>>
  /\ api_log[1].raised
  /\ answer = <<>>
  /\ History # <<>>

\* The question q holds a keyword of the document text d.
SharesKeyword(q, d) ==
  \E k \in 1..Len(Split(Lower(d))) : Contains(Lower(q), Split(Lower(d))[k])

\* C7: a question that shares no keyword with the extracted text is
\* rejected: the API is not called and the answer is the rejection message;
\* a question that shares a keyword is sent to the model.
C7_RelevanceFilter ==
  Submitted =>
    IF SharesKeyword(question, extracted_text)
    THEN api_log # <<>>
    ELSE api_log = <<>> /\ answer = RejectMsg

\* C8 as stated: when the OCR call of page j fails, the extractor returns
\* the empty string for the whole PDF and sends no page after j to OCR.
C8_PdfAbortsOnOcrFailure ==
  PdfExtracted =>
    \A j \in 1..Len(ocr_log) :
      OcrFailed(j) => extracted_text = <<>> /\ Len(ocr_log) = j

\* C8 as amended: an OCR failure on page j of an N-page PDF is caught in
\* extract_text_from_image, which shows its notice and returns the empty
\* string for that page alone; the extractor does not abort: its output
\* holds the header of page j with an empty text, and pages j+1..N are sent
\* to OCR.
C8_PdfContinuesAfterOcrFailure ==
  PdfExtracted =>
    \A j \in 1..Len(widget.pages) :
      (j <= Len(ocr_log) /\ OcrFailed(j)) =>
        /\ Len(ocr_log) = Len(widget.pages)
        /\ \A k \in (j + 1)..Len(widget.pages) : ocr_log[k].page = k
        /\ ocr_log[j].text = <<>>
        /\ Contains(extracted_text, PageHeader(j) \o <<"\n","\n">>)
        /\ ErrImage \in notices
        /\ ErrPdf \notin notices

C8_Witness ==
  /\ PdfExtracted
  /\ OcrFailed(1)
  /\ extracted_text =
       <<"-","-","-"," ","P","a","g","e"," ","1"," ","-","-","-","\n","\n","\n",
         "-","-","-"," ","P","a","g","e"," ","2"," ","-","-","-","\n","b","\n","\n">>

\* C9: the extracted document keeps its value for as long as the input is
\* the same: a run that follows a user action leaving the input type and the
\* input as they were (typing a question, submitting it) leaves the
\* extracted text as it was.  Stated for the runs that have their vision
\* client, before and after.
C9_ExtractedDocumentImmutable ==
  [][(/\ Loaded
      /\ input_type' = input_type
      /\ widget' = widget
      /\ ErrVision \notin notices
      /\ ErrVision \notin notices')
       => extracted_text' = extracted_text]_vars

\* C10: the history is not tied to the document: a step that replaces the
\* input leaves the history as it was, and the prompt of the next question
\* holds the text of the current document and, under "Previous
\* conversation:", every record of the history, those recorded on earlier
\* inputs included.
C10_HistorySurvivesInputChange ==
  [][/\ (input_type' # input_type \/ widget' # widget) => History' = History
     /\ Submitted' =>
          /\ Contains(prompt', ContentHeader \o extracted_text')
          /\ History # <<>> =>
               /\ Contains(prompt', HistoryHeader \o History[1])
               /\ \A i \in 1..Len(History) : Contains(prompt', History[i])]_vars

C10_Witness ==
  /\ Submitted
  /\ carried >= 1
  /\ Len(History) = carried + 1
  /\ Contains(prompt, ContentHeader \o extracted_text \o HistoryHeader \o History[1])

====
